---- MODULE Spec2Model ----
(***************************************************************************)
(* A model of QuestionnaireAnalysis (src/hw_5.py): one table of            *)
(* questionnaire records held in self.data, loaded by read_data and        *)
(* processed by five operations.                                           *)
(*                                                                         *)
(* A cell of the table is a record [k, n, d, s]:                           *)
(*   k = "num"    the number n/d (d > 0, reduced)                          *)
(*   k = "nan"    a missing value (None / NaN)                             *)
(*   k = "NA"     pd.NA (the unscored marker of the score column)          *)
(*   k = "str"    the string s, a sequence of one-character strings        *)
(*   k = "absent" the column does not exist in the DataFrame               *)
(* A row is a record [age, gender, email, q, score, age_group] with q the  *)
(* tuple of the five question cells.  Row i of a table carries the pandas  *)
(* index label i - 1.                                                      *)
(***************************************************************************)
EXTENDS Integers, Sequences, FiniteSets, TLC

VARIABLES
    file,     \* the decoded content of data_fname (never written)
    data,     \* self.data, meaningful once loaded
    loaded,   \* FALSE while self.data is None
    lastOp,   \* [op, m]: the method called last and its maximal_nans_per_sub
    err,      \* "none", or the exception the last call ended in
    ret       \* what the last call returned

vars == <<file, data, loaded, lastOp, err, ret>>

----------------------------------------------------------------------------
(* Bounds of the model. *)

MaxRows == 2
MaxEmailLen == 6
MaxAgeRows == 2

----------------------------------------------------------------------------
(* Cells. *)

NQ == 5
QCols == 1..NQ

RECURSIVE GCD(_, _)
GCD(a, b) == IF b = 0 THEN a ELSE GCD(b, a % b)

Abs(x) == IF x < 0 THEN -x ELSE x

Num(x) == [k |-> "num", n |-> x, d |-> 1, s |-> <<>>]
Frac(a, b) ==
    LET g == GCD(Abs(a), b)
    IN [k |-> "num", n |-> a \div g, d |-> b \div g, s |-> <<>>]
NaN == [k |-> "nan", n |-> 0, d |-> 1, s |-> <<>>]
NA == [k |-> "NA", n |-> 0, d |-> 1, s |-> <<>>]
Absent == [k |-> "absent", n |-> 0, d |-> 1, s |-> <<>>]
Str(t) == [k |-> "str", n |-> 0, d |-> 1, s |-> t]

\* pd.isna / Series.isnull on one cell
isnull(c) == c.k \in {"nan", "NA"}

\* number cell c compared with the integer x
GeqInt(c, x) == c.n >= x * c.d
LtInt(c, x) == c.n < x * c.d
LeqInt(c, x) == c.n <= x * c.d

\* np.floor of a number cell, as a Python int
Floor(c) == c.n \div c.d

----------------------------------------------------------------------------
(* pd.to_numeric(..., errors='coerce') on one value: a number stays, a     *)
(* string of decimal digits is parsed, every other string becomes NaN.     *)

DigitChars == <<"0", "1", "2", "3", "4", "5", "6", "7", "8", "9">>
IsDigit(ch) == \E i \in 1..Len(DigitChars) : DigitChars[i] = ch
DigitVal(ch) == (CHOOSE i \in 1..Len(DigitChars) : DigitChars[i] = ch) - 1

RECURSIVE ParseDigits(_)
ParseDigits(t) ==
    IF t = <<>> THEN 0
    ELSE 10 * ParseDigits(SubSeq(t, 1, Len(t) - 1)) + DigitVal(t[Len(t)])

IsNumeral(t) == Len(t) > 0 /\ \A i \in 1..Len(t) : IsDigit(t[i])

to_numeric(c) ==
    IF c.k = "str"
    THEN IF IsNumeral(c.s) THEN Num(ParseDigits(c.s)) ELSE NaN
    ELSE c

CoerceAge(rows) ==
    [i \in 1..Len(rows) |-> [rows[i] EXCEPT !.age = to_numeric(rows[i].age)]]

CoerceQ(rows) ==
    [i \in 1..Len(rows) |->
        [rows[i] EXCEPT !.q = [c \in QCols |-> to_numeric(rows[i].q[c])]]]

----------------------------------------------------------------------------
(* Results. *)

NoRet == [table |-> <<>>, idx |-> <<>>, hist |-> <<>>, bins |-> <<>>,
          groups |-> <<>>]

\* The outcome of a call on the table rows: the table self.data holds when
\* the call ends, what the call returns, and the exception it ends in.
Out(rows, r, e) == [data |-> rows, ret |-> r, err |-> e]

\* A call of method name.  Before read_data self.data is None and the
\* method's first use of it raises.
Call(name, m, out) ==
    /\ lastOp' = [op |-> name, m |-> m]
    /\ IF ~loaded
       THEN /\ err' = "TypeError"
            /\ ret' = NoRet
            /\ UNCHANGED <<file, data, loaded>>
       ELSE /\ data' = out.data
            /\ ret' = out.ret
            /\ err' = out.err
            /\ UNCHANGED <<file, loaded>>

----------------------------------------------------------------------------
(* show_age_distrib *)

\* np.arange(0, 101, 10)
BinWidth == 10
NBins == 10
bins == [i \in 1..(NBins + 1) |-> (i - 1) * BinWidth]

\* InBin with the last bin half-open like the others
InBinHalfOpen(c, i) == GeqInt(c, bins[i]) /\ LtInt(c, bins[i + 1])

\* np.histogram: bin i is [bins[i], bins[i+1]), the last bin is closed
InBin(c, i) ==
    /\ GeqInt(c, bins[i])
    /\ IF i = NBins THEN LeqInt(c, bins[i + 1]) ELSE LtInt(c, bins[i + 1])

\* self.data['age'].dropna() then np.histogram(ages, bins=bins)
histogram(rows) ==
    [i \in 1..NBins |->
        Cardinality({r \in 1..Len(rows) :
            rows[r].age.k = "num" /\ InBin(rows[r].age, i)})]

show_age_distrib_out(rows) ==
    Out(CoerceAge(rows),
        [NoRet EXCEPT !.hist = histogram(CoerceAge(rows)), !.bins = bins],
        "none")

show_age_distrib == Call("show_age_distrib", 0, show_age_distrib_out(data))

----------------------------------------------------------------------------
(* remove_rows_without_mail *)

NotAt(t, a, b) == \A x \in a..b : t[x] # "@"

\* re_match as re.fullmatch: the pattern must match the whole string
re_fullmatch(t) ==
    \E i \in 1..Len(t) : \E j \in (i + 2)..Len(t) :
        /\ Len(t) >= j + 2
        /\ NotAt(t, 1, i)
        /\ t[i + 1] = "@"
        /\ NotAt(t, i + 2, j)
        /\ t[j + 1] = "."
        /\ NotAt(t, j + 2, Len(t))

\* re.match(r"[^@]+@[^@]+\.[^@]+", email): the pattern must match a prefix
\* t[1..k] of the string; t[1..i] is the local part, t[i+1] the '@',
\* t[i+2..j] the domain, t[j+1] the '.', t[j+2..k] the rest.
re_match(t) ==
    \E i \in 1..Len(t) : \E j \in (i + 2)..Len(t) : \E k \in (j + 2)..Len(t) :
        /\ NotAt(t, 1, i)
        /\ t[i + 1] = "@"
        /\ NotAt(t, i + 2, j)
        /\ t[j + 1] = "."
        /\ NotAt(t, j + 2, k)

is_valid_email(email) ==
    IF email.k = "str" THEN re_match(email.s) ELSE FALSE

RECURSIVE SelectRows(_, _)
SelectRows(rows, keep) ==
    IF rows = <<>> THEN <<>>
    ELSE LET rest == SelectRows(SubSeq(rows, 1, Len(rows) - 1),
                                SubSeq(keep, 1, Len(keep) - 1))
         IN IF keep[Len(rows)] THEN Append(rest, rows[Len(rows)]) ELSE rest

\* self.data[valid_email_mask].reset_index(drop=True)
cleaned_data(rows) ==
    SelectRows(rows, [i \in 1..Len(rows) |-> is_valid_email(rows[i].email)])

\* remove_rows_without_mail assigning the filtered table to self.data
remove_rows_without_mail_inplace(rows) ==
    Out(cleaned_data(rows), [NoRet EXCEPT !.table = cleaned_data(rows)], "none")

remove_rows_without_mail_out(rows) ==
    Out(rows, [NoRet EXCEPT !.table = cleaned_data(rows)], "none")

remove_rows_without_mail ==
    Call("remove_rows_without_mail", 0, remove_rows_without_mail_out(data))

----------------------------------------------------------------------------
(* fill_na_with_mean *)

\* row.isnull().any(): over every column the table has
RowHasNull(r) ==
    \/ isnull(r.age) \/ isnull(r.gender) \/ isnull(r.email)
    \/ \E c \in QCols : isnull(r.q[c])
    \/ isnull(r.score) \/ isnull(r.age_group)

RECURSIVE SumCells(_, _)
SumCells(q, cols) ==
    IF cols = {} THEN 0
    ELSE LET c == CHOOSE x \in cols : TRUE
         IN q[c].n + SumCells(q, cols \ {c})

Present(q) == {c \in QCols : q[c].k = "num"}

\* row_mean with skipna=False: NaN as soon as one cell is missing
row_mean_keepna(q) ==
    IF Present(q) # QCols THEN NaN
    ELSE Frac(SumCells(q, Present(q)), Cardinality(Present(q)))

\* Series.mean(skipna=True) of the five question cells of one row (whole
\* numbers): NaN when none is present.  On a row that holds a string the
\* sum adds a number and a str and raises TypeError (MeanRaises).
row_mean(q) ==
    IF Present(q) = {} THEN NaN
    ELSE Frac(SumCells(q, Present(q)), Cardinality(Present(q)))

MeanRaises(q) == \E c \in QCols : q[c].k = "str"

\* the inner loop over q1..q5 of one row: row is the copy iterrows yields
FillRow(row) ==
    [row EXCEPT !.q = [c \in QCols |->
        IF isnull(row.q[c]) THEN row_mean(row.q) ELSE row.q[c]]]

\* the mean is computed in a row only when one of its questions is null
FillRaises(rows) ==
    \E i \in 1..Len(rows) :
        /\ RowHasNull(rows[i])
        /\ \E c \in QCols : isnull(rows[i].q[c])
        /\ MeanRaises(rows[i].q)

data_filled(rows) ==
    [i \in 1..Len(rows) |->
        IF RowHasNull(rows[i]) THEN FillRow(rows[i]) ELSE rows[i]]

RECURSIVE row_indices(_)
row_indices(rows) ==
    IF rows = <<>> THEN <<>>
    ELSE LET rest == row_indices(SubSeq(rows, 1, Len(rows) - 1))
         IN IF RowHasNull(rows[Len(rows)])
            THEN Append(rest, Len(rows) - 1)
            ELSE rest

\* fill_na_with_mean filling self.data itself instead of a copy
fill_na_with_mean_inplace(rows) ==
    IF FillRaises(rows)
    THEN Out(rows, NoRet, "TypeError")
    ELSE Out(data_filled(rows),
             [NoRet EXCEPT !.table = data_filled(rows),
                           !.idx = row_indices(rows)],
             "none")

fill_na_with_mean_out(rows) ==
    IF FillRaises(rows)
    THEN Out(rows, NoRet, "TypeError")
    ELSE Out(rows,
             [NoRet EXCEPT !.table = data_filled(rows),
                           !.idx = row_indices(rows)],
             "none")

fill_na_with_mean == Call("fill_na_with_mean", 0, fill_na_with_mean_out(data))

----------------------------------------------------------------------------
(* score_subjects *)

UInt8Max == 255

NullCount(q) == Cardinality({c \in QCols : isnull(q[c])})

\* calculate_score raises ValueError on int(np.floor(nan))
ScoreRaises(q, m) == NullCount(q) <= m /\ Present(q) = {}

calculate_score(q, m) ==
    IF NullCount(q) > m THEN NA ELSE Num(Floor(row_mean(q)))

\* scores.astype("UInt8") refuses a value the type cannot hold
FitsUInt8(c) == c.k = "NA" \/ (c.n >= 0 /\ c.n <= UInt8Max)

\* score_subjects dropping the rows it leaves unscored
score_subjects_dropna(rows, m) ==
    LET num == CoerceQ(rows)
        kept == SelectRows(num, [i \in 1..Len(num) |-> NullCount(num[i].q) <= m])
        scored == [i \in 1..Len(kept) |->
                    [kept[i] EXCEPT !.score = calculate_score(kept[i].q, m)]]
    IN IF \E i \in 1..Len(num) : ScoreRaises(num[i].q, m)
       THEN Out(num, NoRet, "ValueError")
       ELSE Out(scored, [NoRet EXCEPT !.table = scored], "none")

score_subjects_out(rows, m) ==
    LET num == CoerceQ(rows)
        n == Len(rows)
    IN IF \E i \in 1..n : ScoreRaises(num[i].q, m)
       THEN Out(num, NoRet, "ValueError")
       ELSE IF \E i \in 1..n : ~FitsUInt8(calculate_score(num[i].q, m))
       THEN Out(num, NoRet, "TypeError")
       ELSE LET scored == [i \in 1..n |->
                    [num[i] EXCEPT !.score = calculate_score(num[i].q, m)]]
            IN Out(scored, [NoRet EXCEPT !.table = scored], "none")

Thresholds == 0..NQ

score_subjects ==
    \E m \in Thresholds : Call("score_subjects", m, score_subjects_out(data, m))

----------------------------------------------------------------------------
(* correlate_gender_age *)

AgeSplit == 40
above_40 == <<"a", "b", "o", "v", "e", "_", "4", "0">>
below_40 == <<"b", "e", "l", "o", "w", "_", "4", "0">>

\* the characters of the model's strings, by code point
CodePoints == <<".", "0", "1", "2", "3", "4", "5", "6", "7", "8", "9", "@",
                "F", "M", "_", "a", "b", "e", "l", "o", "v", "w", "x">>
Ord(ch) == CHOOSE i \in 1..Len(CodePoints) : CodePoints[i] = ch

RECURSIVE StrLess(_, _)
StrLess(a, b) ==
    IF b = <<>> THEN FALSE
    ELSE IF a = <<>> THEN TRUE
    ELSE IF a[1] # b[1] THEN Ord(a[1]) < Ord(b[1])
    ELSE StrLess(Tail(a), Tail(b))

\* 'above_40' if age >= 40 else 'below_40'; NaN >= 40 is False
age_group_of(age) ==
    IF age.k = "num" /\ GeqInt(age, AgeSplit) THEN Str(above_40)
    ELSE Str(below_40)

WithAgeGroup(rows) ==
    [i \in 1..Len(rows) |->
        [rows[i] EXCEPT !.age_group = age_group_of(rows[i].age)]]

\* groupby(['gender', 'age_group']): rows with a null key are left out
GroupKeys(rows) ==
    {<<rows[i].gender.s, rows[i].age_group.s>> :
        i \in {x \in 1..Len(rows) : ~isnull(rows[x].gender)}}

KeyLess(a, b) == StrLess(a[1], b[1]) \/ (a[1] = b[1] /\ StrLess(a[2], b[2]))

RECURSIVE SortKeys(_)
SortKeys(S) ==
    IF S = {} THEN <<>>
    ELSE LET lo == CHOOSE x \in S : \A y \in S \ {x} : KeyLess(x, y)
         IN <<lo>> \o SortKeys(S \ {lo})

Members(rows, key) ==
    {i \in 1..Len(rows) :
        /\ ~isnull(rows[i].gender)
        /\ <<rows[i].gender.s, rows[i].age_group.s>> = key}

RECURSIVE SumColumn(_, _, _)
SumColumn(rows, c, S) ==
    IF S = {} THEN 0
    ELSE LET i == CHOOSE x \in S : TRUE
         IN rows[i].q[c].n + SumColumn(rows, c, S \ {i})

\* the mean of column c over the non-null cells of the group
GroupMean(rows, c, S) ==
    LET have == {i \in S : rows[i].q[c].k = "num"}
    IN IF have = {} THEN NaN
       ELSE Frac(SumColumn(rows, c, have), Cardinality(have))

grouped(rows) ==
    LET keys == SortKeys(GroupKeys(rows))
    IN [g \in 1..Len(keys) |->
           [gender |-> keys[g][1], age_group |-> keys[g][2],
            q |-> [c \in QCols |-> GroupMean(rows, c, Members(rows, keys[g]))]]]

\* mean(numeric_only=True) leaves out a column of dtype object, which a
\* question column is while it holds a string; selecting it then raises.
ObjectColumn(rows, c) == \E i \in 1..Len(rows) : rows[i].q[c].k = "str"

correlate_gender_age_out(rows) ==
    LET labelled == WithAgeGroup(CoerceAge(rows))
    IN IF \E c \in QCols : ObjectColumn(labelled, c)
       THEN Out(labelled, NoRet, "KeyError")
       ELSE Out(labelled, [NoRet EXCEPT !.groups = grouped(labelled)], "none")

correlate_gender_age ==
    Call("correlate_gender_age", 0, correlate_gender_age_out(data))

----------------------------------------------------------------------------
(* read_data *)

read_data ==
    /\ data' = file
    /\ loaded' = TRUE
    /\ lastOp' = [op |-> "read_data", m |-> 0]
    /\ err' = "none"
    /\ ret' = NoRet
    /\ UNCHANGED file

Next ==
    \/ read_data
    \/ show_age_distrib
    \/ remove_rows_without_mail
    \/ fill_na_with_mean
    \/ score_subjects
    \/ correlate_gender_age

----------------------------------------------------------------------------
(* The files read_data may find: JSON arrays of records.  A loaded table   *)
(* has neither a score nor an age_group column.                            *)

Record(age, gender, email, q) ==
    [age |-> age, gender |-> gender, email |-> email, q |-> q,
     score |-> Absent, age_group |-> Absent]

\* the tables of 1..n rows whose first row is in first, the others in rest
RECURSIVE Tables(_, _, _)
Tables(first, rest, n) ==
    IF n = 0 THEN {}
    ELSE IF n = 1 THEN {<<r>> : r \in first}
    ELSE LET shorter == Tables(first, rest, n - 1)
         IN shorter \cup
            {Append(t, r) : t \in {x \in shorter : Len(x) = n - 1}, r \in rest}

Female == Str(<<"F">>)
Male == Str(<<"M">>)
GoodMail == Str(<<"a", "@", "a", ".", "a">>)
GoodQ == <<Num(10), Num(20), Num(30), Num(40), Num(50)>>

\* question values: missing, a non-numeric string, an answer; the first
\* question also a numeric string and an answer far above the scale
Answers == <<Num(1), Num(2), Num(2), Num(3), Num(3)>>
QValues(c) ==
    {NaN, Str(<<"x">>), Answers[c]}
        \cup (IF c = 1 THEN {Str(<<"7">>), Num(2000)} ELSE {})
QTuples == {q \in [QCols -> UNION {QValues(c) : c \in QCols}] :
                \A c \in QCols : q[c] \in QValues(c)}

FirstRecords ==
    {Record(a, Female, GoodMail, q) : a \in {Num(45), NaN}, q \in QTuples}

OtherRecords ==
    { Record(Num(30), Male, GoodMail, GoodQ),
      Record(Str(<<"x">>), NaN, Str(<<"a", "@">>),
             <<NaN, NaN, NaN, NaN, NaN>>) }

Files == Tables(FirstRecords, OtherRecords, MaxRows)

\* e-mail values: every string over three characters up to MaxEmailLen,
\* and values that are no strings
EmailChars == {"a", "@", "."}
Strings(n) == UNION {[1..k -> EmailChars] : k \in 0..n}
EmailValues == {Str(t) : t \in Strings(MaxEmailLen)} \cup {NaN, Num(7)}
OtherEmails == {GoodMail, NaN, Str(<<"a", "@", "a", ".", "@">>)}

\* tables of one row, and of two: any e-mail, then one of OtherEmails
EmailFiles ==
    LET first == {Record(Num(45), Female, e, GoodQ) : e \in EmailValues}
        other == {Record(NaN, Male, e, GoodQ) : e \in OtherEmails}
    IN {<<r>> : r \in first} \cup {<<r, o>> : r \in first, o \in other}

\* ages: numbers in and out of the histogram's range, missing, strings
AgeValues ==
    {Num(x) : x \in {-1, 0, 9, 10, 39, 40, 99, 100, 101}}
        \cup {NaN, Str(<<"4", "5">>), Str(<<"x">>)}
AgeRecords == {Record(a, Female, GoodMail, GoodQ) : a \in AgeValues}
AgeFiles == Tables(AgeRecords, AgeRecords, MaxAgeRows)

\* the state after QuestionnaireAnalysis(data_fname)
Constructed ==
    /\ data = <<>>
    /\ loaded = FALSE
    /\ lastOp = [op |-> "__init__", m |-> 0]
    /\ err = "none"
    /\ ret = NoRet

Init == file \in Files /\ Constructed
InitEmail == file \in EmailFiles /\ Constructed
InitAge == file \in AgeFiles /\ Constructed

Spec == Init /\ [][Next]_vars
SpecEmail == InitEmail /\ [][Next]_vars
SpecAge == InitAge /\ [][Next]_vars

----------------------------------------------------------------------------
(* Claims. *)

Returned(name) == loaded /\ lastOp.op = name /\ err = "none"

\* C1: remove_rows_without_mail leaves the stored table as it was, and a
\* second call right after a first returns the same filtered table.
C1_FilterKeepsStoredTable ==
    [][(loaded /\ lastOp'.op = "remove_rows_without_mail")
        => /\ data' = data
           /\ (lastOp.op = "remove_rows_without_mail" => ret' = ret)]_vars

C1_Witness ==
    /\ Returned("remove_rows_without_mail")
    /\ Len(data) = 2
    /\ Len(ret.table) = 1

\* C2: once N rows are loaded the stored table has N rows whatever was
\* called, and so have the tables fill_na_with_mean and score_subjects
\* return.
C2_RowCountFixed ==
    loaded =>
        /\ Len(data) = Len(file)
        /\ (Returned("fill_na_with_mean") \/ Returned("score_subjects"))
              => Len(ret.table) = Len(file)

C2_Witness ==
    /\ Returned("remove_rows_without_mail")
    /\ Len(ret.table) < Len(file)
    /\ data[1].score.k # "absent"
    /\ data[1].age_group.k # "absent"

\* the e-mail shape as the specification words it: a whole string made of
\* one or more non-'@', an '@', one or more non-'@', a '.', one or more
\* characters
WordedValid(email) ==
    /\ email.k = "str"
    /\ \E i \in 1..Len(email.s) : \E j \in (i + 2)..(Len(email.s) - 2) :
          /\ NotAt(email.s, 1, i)
          /\ email.s[i + 1] = "@"
          /\ NotAt(email.s, i + 2, j)
          /\ email.s[j + 1] = "."
          /\ Len(email.s) >= j + 2

\* the shape with the character after the '.' not an '@', and anything
\* after that character
StartValid(email) ==
    /\ email.k = "str"
    /\ \E i \in 1..Len(email.s) : \E j \in (i + 2)..(Len(email.s) - 2) :
          /\ NotAt(email.s, 1, i)
          /\ email.s[i + 1] = "@"
          /\ NotAt(email.s, i + 2, j)
          /\ email.s[j + 1] = "."
          /\ Len(email.s) >= j + 2
          /\ email.s[j + 2] # "@"

\* C3 as stated: the returned table is the stored rows, in order, whose
\* e-mail has the worded shape.
C3_WordedShape ==
    Returned("remove_rows_without_mail") =>
        ret.table = SelectRows(data, [i \in 1..Len(data) |-> WordedValid(data[i].email)])

\* C3 amended: the returned table is the stored rows, in order, whose e-mail
\* is a string that starts with the shape, the character after the '.'
\* being no '@'.
C3_StartShape ==
    Returned("remove_rows_without_mail") =>
        ret.table = SelectRows(data, [i \in 1..Len(data) |-> StartValid(data[i].email)])

C3_Witness ==
    /\ Returned("remove_rows_without_mail")
    /\ Len(data) = 2
    /\ data[1].email = Str(<<"a", "@", "a", ".", "a", "@">>)
    /\ data[2].email = Str(<<"a", "@", "a", ".", "@">>)
    /\ ret.table = <<data[1]>>

RECURSIVE SumSeq(_)
SumSeq(s) == IF s = <<>> THEN 0 ELSE s[1] + SumSeq(Tail(s))

ParseableAge(c) == c.k = "num" \/ (c.k = "str" /\ IsNumeral(c.s))
AgeNumber(c) == IF c.k = "num" THEN c.n ELSE ParseDigits(c.s)

\* C4 as stated: the bucket counts sum to the number of rows with a
\* parseable numeric age.
C4_SumIsParseable ==
    Returned("show_age_distrib") =>
        SumSeq(ret.hist) =
            Cardinality({i \in 1..Len(file) : ParseableAge(file[i].age)})

\* C4 amended: the bucket counts sum to the number of rows whose age is a
\* parseable number from 0 to 100.
C4_SumIsInRange ==
    Returned("show_age_distrib") =>
        SumSeq(ret.hist) =
            Cardinality({i \in 1..Len(file) :
                /\ ParseableAge(file[i].age)
                /\ AgeNumber(file[i].age) >= 0
                /\ AgeNumber(file[i].age) <= NBins * BinWidth})

C4_Witness ==
    /\ Returned("show_age_distrib")
    /\ Len(file) = 2
    /\ file[1].age = Num(100)
    /\ file[2].age = Str(<<"4", "5">>)
    /\ SumSeq(ret.hist) = 2

\* C5: after score_subjects(m) every row with more than m missing questions
\* is unscored and every other row with a question present holds the floor
\* of the mean of its present questions.
C5_ScoreWritten ==
    (loaded /\ lastOp.op = "score_subjects") =>
        \A i \in 1..Len(data) :
            LET have == {c \in QCols : data[i].q[c].k = "num"}
            IN IF NQ - Cardinality(have) > lastOp.m
               THEN data[i].score = NA
               ELSE have # {} =>
                      data[i].score =
                          Num(SumCells(data[i].q, have) \div Cardinality(have))

\* C6: the index list fill_na_with_mean returns is, ascending, the labels of
\* the rows with a missing question.
C6_IndexListIsMissingQuestions ==
    Returned("fill_na_with_mean") =>
        /\ \A a, b \in 1..Len(ret.idx) : a < b => ret.idx[a] < ret.idx[b]
        /\ {ret.idx[a] : a \in 1..Len(ret.idx)} =
              {i - 1 : i \in {x \in 1..Len(data) :
                                 \E c \in QCols : isnull(data[x].q[c])}}

\* C7: in the table fill_na_with_mean returns, a question cell missing in
\* the stored table holds the mean of the row's present questions (NaN when
\* none is present) and every other question cell is as stored.
C7_FilledWithRowMean ==
    Returned("fill_na_with_mean") =>
        /\ Len(ret.table) = Len(data)
        /\ \A i \in 1..Len(data) : \A c \in QCols :
              LET have == {x \in QCols : data[i].q[x].k = "num"}
                  new == ret.table[i].q[c]
              IN IF ~isnull(data[i].q[c]) THEN new = data[i].q[c]
                 ELSE IF have = {} THEN new = NaN
                 ELSE /\ new.k = "num"
                      /\ new.n * Cardinality(have) = new.d * SumCells(data[i].q, have)

C7_Witness ==
    /\ Returned("fill_na_with_mean")
    /\ Len(data) = 2
    /\ isnull(data[1].q[1]) /\ isnull(data[1].q[2])
    /\ ret.table[1].q[1].k = "num" /\ ret.table[1].q[1].d > 1
    /\ ret.table[1].q[2] = ret.table[1].q[1]
    /\ \A c \in QCols : isnull(data[2].q[c]) /\ ret.table[2].q[c] = NaN

\* C8: fill_na_with_mean leaves every cell of the stored table as it was.
C8_FillKeepsStoredTable ==
    [][(loaded /\ lastOp'.op = "fill_na_with_mean") => data' = data]_vars

C8_Witness ==
    /\ Returned("fill_na_with_mean")
    /\ \E i \in 1..Len(data) : \E c \in QCols :
          isnull(data[i].q[c]) /\ ret.table[i].q[c].k = "num"

\* C9: correlate_gender_age labels every row by its age and returns one row
\* per (gender, age_group) pair of the table, in key order, holding the
\* means of the pair's present questions.
C9_GroupsReturned ==
    (loaded /\ lastOp.op = "correlate_gender_age") =>
        LET pairs == {<<data[i].gender.s, data[i].age_group.s>> :
                         i \in {x \in 1..Len(data) : data[x].gender.k = "str"}}
            key(g) == <<ret.groups[g].gender, ret.groups[g].age_group>>
        IN /\ err = "none"
           /\ \A i \in 1..Len(data) :
                 data[i].age_group.s =
                     IF data[i].age.k = "num" /\ data[i].age.n >= AgeSplit * data[i].age.d
                     THEN above_40 ELSE below_40
           /\ {key(g) : g \in 1..Len(ret.groups)} = pairs
           /\ Len(ret.groups) = Cardinality(pairs)
           /\ \A a, b \in 1..Len(ret.groups) : a < b => KeyLess(key(a), key(b))
           /\ \A g \in 1..Len(ret.groups) : \A c \in QCols :
                 ret.groups[g].q[c] = GroupMean(data, c, Members(data, key(g)))

\* C10: once a table is loaded no operation ends in an error.
C10_NoOperationRaises == loaded => err = "none"

====
